---- MODULE Spec2Model ----
(***************************************************************************)
(* The circuit breaker of cdk/lib/circuit-breaker/circuit-breaker.ts: the  *)
(* Step Functions state machine built by CircuitBreakerSQSLambda.  One     *)
(* execution of the state machine is one Incident.  Every state of the     *)
(* machine is one action; pc names the state that runs next, and log is    *)
(* the execution history (state name, outcome, seconds waited).            *)
(***************************************************************************)
EXTENDS Integers, Sequences, FiniteSets, Bags, TLC

\* ---- bounds of the model (not program constants) ----
MaxBackoffDelay == 11   \* props.initialBackoffDelay ranges over 1..MaxBackoffDelay
MaxUnits == 3           \* messages that may sit in the queue at the trigger

MaxSettleDelay == 1     \* props.rejitterInitialBackoffDelay ranges over 1..MaxSettleDelay
MaxJitterWindow == 2    \* props.rejitterDelay ranges over 1..MaxJitterWindow
MaxBatch == 2           \* records in one event of the rejitter lambda
MaxCopies == 2          \* delayed messages in the queue at one time
MaxRedeliveries == 1    \* steps issued a second time in one run of the model
MaxClock == 3           \* seconds of the drain that the model follows
RandomGrid == 128       \* Math.random() ranges over k / RandomGrid, k in 0..RandomGrid-1

\* ---- program constants ----
Undefined == -1                 \* an optional prop that was not passed
DefaultInitialBackoffDelay == 10   \* props.initialBackoffDelay ?? 10
DefaultRejitterInitialBackoffDelay == 60
DefaultRejitterDelay == 120
InitialAttempt == 1             \* resultSelector Attempt: 1
InitialRetryTime == 10          \* resultSelector RetryTime: 10
RetryAttemptLimit == 10         \* Condition.numberLessThan("$.Attempt", 10)
FetchRetryInterval == 10        \* addRetry interval
FetchRetryMaxAttempts == 5      \* addRetry maxAttempts
FetchRetryBackoffRate == 2      \* addRetry backoffRate
VisibilityTimeout == 30         \* seconds a received message stays hidden (the Queue sets none: SQS default)

Units == 1..MaxUnits
EventSources == {"sqsEventSource", "rejitterSqsEventSource"}

VARIABLES
  props,         \* CircuitBreakerLambdaProps the construct was built with
  pc,            \* the state of the machine that runs next, or a terminal status
  mappings,      \* event source mapping -> Enabled
  queue,         \* units in the SQS queue
  Messages,      \* $.Messages of the execution's data (<<>> before the fetch)
  Attempt,       \* $.Attempt  (0: not in the data yet)
  RetryTime,     \* $.RetryTime (0: not in the data yet)
  fetchRetries,  \* retries of the receiveMessage task used so far
  log,           \* execution history: <<state, outcome, seconds>>
  copies,        \* bag of the delayed messages in the queue: <<body, DelaySeconds, sent at>>
  redelivered,   \* side-effecting steps that were issued a second time
  inflight,      \* units of the queue that are received and still hidden from receivers
  other,         \* a second execution, suspended in a backoff wait (<<>>: none)
  clock          \* seconds since the rejitter drain was activated

vars == <<props, pc, mappings, queue, Messages, Attempt, RetryTime, fetchRetries, log,
          copies, redelivered, inflight, other, clock>>

RECURSIVE Pow(_, _)
Pow(b, n) == IF n = 0 THEN 1 ELSE b * Pow(b, n - 1)

Last(s) == s[Len(s)]

\* const defaultTimeout = props.initialBackoffDelay ?? 10;
defaultTimeout ==
  IF props.initialBackoffDelay = Undefined THEN DefaultInitialBackoffDelay
  ELSE props.initialBackoffDelay

\* const backoffDelay = props.rejitterInitialBackoffDelay ?? 60;
backoffDelay ==
  IF props.rejitterInitialBackoffDelay = Undefined THEN DefaultRejitterInitialBackoffDelay
  ELSE props.rejitterInitialBackoffDelay

\* const rejitterRange = props.rejitterDelay ?? 120;
rejitterRange ==
  IF props.rejitterDelay = Undefined THEN DefaultRejitterDelay
  ELSE props.rejitterDelay

\* The primary gate: the event source mapping of the triggering function.
gate == mappings["sqsEventSource"]
rejitterGate == mappings["rejitterSqsEventSource"]

Terminal == pc \in {"Succeeded", "Failed"}

Step(state, outcome, secs) == log' = Append(log, <<state, outcome, secs>>)

Init ==
  /\ props \in [initialBackoffDelay : {Undefined} \cup (1..MaxBackoffDelay),
                rejitter : BOOLEAN,
                rejitterInitialBackoffDelay : {Undefined} \cup (1..MaxSettleDelay),
                rejitterDelay : {Undefined}]
     \* the rejitter props are read only when props.rejitter is set
  /\ ~props.rejitter => props.rejitterInitialBackoffDelay = Undefined
  /\ pc = "disableMapping"
     \* new SqsEventSource(sqs) is enabled; the rejitter one is built { enabled: false }
  /\ mappings = [e \in EventSources |-> e = "sqsEventSource"]
  /\ queue \in SUBSET Units
  /\ Messages = <<>>
  /\ Attempt = 0
  /\ RetryTime = 0
  /\ fetchRetries = 0
  /\ log = <<>>
  /\ copies = EmptyBag
  /\ redelivered = 0
  /\ inflight = {}
  /\ other = <<>>
  /\ clock = 0

\* CallAwsService lambda:updateEventSourceMapping {Uuid, Enabled}; no Retry, no
\* Catch: an error of the call fails the execution.  A call that errors leaves
\* the mapping as it was.
toggleEventSourceMapping(id, eventSource, enabled, next) ==
  /\ pc = id
  /\ \/ /\ mappings' = [mappings EXCEPT ![eventSource] = enabled]
        /\ pc' = next
        /\ Step(id, "ok", 0)
     \/ /\ UNCHANGED mappings
        /\ pc' = "Failed"
        /\ Step(id, "error", 0)
  /\ UNCHANGED <<props, queue, Messages, Attempt, RetryTime, fetchRetries,
               copies, redelivered, inflight, other, clock>>

disableMapping_retried ==
  /\ pc = "disableMapping"
  /\ \/ /\ mappings' = [mappings EXCEPT !["sqsEventSource"] = FALSE]
        /\ pc' = "waitState"
        /\ Step("disableMapping", "ok", 0)
     \/ /\ UNCHANGED mappings
        /\ pc' = IF Len(log) < 2 THEN "disableMapping" ELSE "Failed"
        /\ Step("disableMapping", "error", 0)
  /\ UNCHANGED <<props, queue, Messages, Attempt, RetryTime, fetchRetries,
               copies, redelivered, inflight, other, clock>>

disableMapping ==
  toggleEventSourceMapping("disableMapping", "sqsEventSource", FALSE, "waitState")

enabledMapping_noop ==
  toggleEventSourceMapping("enabledMapping", "sqsEventSource", FALSE, "Succeeded")

enabledMapping ==
  toggleEventSourceMapping("enabledMapping", "sqsEventSource", TRUE, "Succeeded")

\* new Wait(this, `Wait ${defaultTimeout} Seconds`, ...)
waitState ==
  /\ pc = "waitState"
  /\ pc' = "getTesterMessage"
  /\ Step("waitState", "ok", defaultTimeout)
  /\ UNCHANGED <<props, mappings, queue, Messages, Attempt, RetryTime, fetchRetries,
               copies, redelivered, inflight, other, clock>>

getTesterMessage_noRetry ==
  /\ pc = "getTesterMessage"
  /\ \/ \E u \in queue \ inflight :
          /\ Messages' = <<u>>
          /\ inflight' = inflight \cup {u}
          /\ Attempt' = InitialAttempt
          /\ RetryTime' = InitialRetryTime
          /\ pc' = "triggerLambda"
          /\ Step("getTesterMessage", "ok", 0)
     \/ /\ pc' = "Failed"
        /\ Step("getTesterMessage", "nomessage", 0)
        /\ UNCHANGED <<Messages, Attempt, RetryTime, inflight>>
     \/ /\ pc' = "Failed"
        /\ Step("getTesterMessage", "error", 0)
        /\ UNCHANGED <<Messages, Attempt, RetryTime, inflight>>
  /\ UNCHANGED <<props, mappings, queue, fetchRetries,
               copies, redelivered, other, clock>>

\* performSqsActionTask: CallAwsService sqs:receiveMessage {MaxNumberOfMessages: 1}
\* resultSelector {Messages.$: $.Messages, Attempt: 1, RetryTime: 10}
\* .addRetry({interval: 10s, maxAttempts: 5, backoffRate: 2})
\* A response without Messages (nothing received) has no $.Messages for the
\* resultSelector: the state fails on the path error, which is not retried.
getTesterMessage ==
  /\ pc = "getTesterMessage"
  /\ \/ \E u \in queue \ inflight :
          /\ Messages' = <<u>>
          /\ inflight' = inflight \cup {u}
          /\ Attempt' = InitialAttempt
          /\ RetryTime' = InitialRetryTime
          /\ pc' = "triggerLambda"
          /\ Step("getTesterMessage", "ok", 0)
          /\ UNCHANGED fetchRetries
     \/ /\ pc' = "Failed"
        /\ Step("getTesterMessage", "nomessage", 0)
        /\ UNCHANGED <<Messages, Attempt, RetryTime, fetchRetries, inflight>>
     \/ /\ fetchRetries < FetchRetryMaxAttempts
        /\ fetchRetries' = fetchRetries + 1
        /\ pc' = "getTesterMessage"
        /\ Step("getTesterMessage", "retry",
                FetchRetryInterval * Pow(FetchRetryBackoffRate, fetchRetries))
        /\ UNCHANGED <<Messages, Attempt, RetryTime, inflight>>
     \/ /\ fetchRetries >= FetchRetryMaxAttempts
        /\ pc' = "Failed"
        /\ Step("getTesterMessage", "error", 0)
        /\ UNCHANGED <<Messages, Attempt, RetryTime, fetchRetries, inflight>>
  /\ UNCHANGED <<props, mappings, queue,
               copies, redelivered, other, clock>>

\* LambdaInvoke "Test Whether service is fixed", payload Records[0].body =
\* $.Messages[0].Body, resultPath DISCARD; addCatch(incrementFailureAndTime...,
\* {resultPath: DISCARD}): a failure of the worker goes to the failure route
\* with the data unchanged.
triggerLambda ==
  /\ pc = "triggerLambda"
  /\ Len(Messages) >= 1
  /\ \/ /\ pc' = "deleteMessageSqs"
        /\ Step("triggerLambda", "ok", 0)
     \/ /\ pc' = "incrementFailureAndTime"
        /\ Step("triggerLambda", "caught", 0)
  /\ UNCHANGED <<props, mappings, queue, Messages, Attempt, RetryTime, fetchRetries,
               copies, redelivered, inflight, other, clock>>

\* Attempt: mathAdd($.Attempt, 1)
NextAttempt_two(attempt) == attempt + 2

NextAttempt(attempt) == attempt + 1

\* RetryTime: mathAdd($.RetryTime, $.RetryTime)
NextRetryTime(retryTime) == retryTime + retryTime

incrementFailureAndTime_dropsMessages ==
  /\ pc = "incrementFailureAndTime"
  /\ Messages' = <<>>
  /\ Attempt' = NextAttempt(Attempt)
  /\ RetryTime' = NextRetryTime(RetryTime)
  /\ pc' = "exceededRetryChoice"
  /\ Step("incrementFailureAndTime", "ok", 0)
  /\ UNCHANGED <<props, mappings, queue, fetchRetries,
               copies, redelivered, inflight, other, clock>>

\* Pass "On example Fail, Increment Attempt Counter"
incrementFailureAndTime ==
  /\ pc = "incrementFailureAndTime"
  /\ Messages' = Messages
  /\ Attempt' = NextAttempt(Attempt)
  /\ RetryTime' = NextRetryTime(RetryTime)
  /\ pc' = "exceededRetryChoice"
  /\ Step("incrementFailureAndTime", "ok", 0)
  /\ UNCHANGED <<props, mappings, queue, fetchRetries,
               copies, redelivered, inflight, other, clock>>

\* Condition.numberLessThan("$.Attempt", 10)
MayRetry_twelve(attempt) == attempt < 12

MayRetry(attempt) == attempt < RetryAttemptLimit

\* Choice "Has Exceeded Retry Attempts?"
\*   .when(numberLessThan($.Attempt, 10), waitAndRetry).otherwise(Fail)
exceededRetryChoice ==
  /\ pc = "exceededRetryChoice"
  /\ pc' = IF MayRetry(Attempt) THEN "waitAndRetry" ELSE "exceededRetryAttempts"
  /\ Step("exceededRetryChoice", "ok", 0)
  /\ UNCHANGED <<props, mappings, queue, Messages, Attempt, RetryTime, fetchRetries,
               copies, redelivered, inflight, other, clock>>

\* Wait "Exponential Backoff": WaitTime.secondsPath("$.RetryTime"), next triggerLambda
waitAndRetry ==
  /\ pc = "waitAndRetry"
  /\ pc' = "triggerLambda"
  /\ Step("waitAndRetry", "ok", RetryTime)
  /\ UNCHANGED <<props, mappings, queue, Messages, Attempt, RetryTime, fetchRetries,
               copies, redelivered, inflight, other, clock>>

exceededRetryAttempts_reentry ==
  /\ \/ /\ pc = "exceededRetryAttempts"
        /\ pc' = "Failed"
        /\ Step("exceededRetryAttempts", "fail", 0)
     \/ /\ pc = "Failed"
        /\ Len(log) < 45
        /\ Last(log)[1] = "exceededRetryAttempts"
        /\ pc' = "disableMapping"
        /\ Step("exceededRetryAttempts", "reentry", 0)
  /\ UNCHANGED <<props, mappings, queue, Messages, Attempt, RetryTime, fetchRetries,
               copies, redelivered, inflight, other, clock>>

\* new Fail(this, "Exceeded Retry Attempts")
exceededRetryAttempts ==
  /\ pc = "exceededRetryAttempts"
  /\ pc' = "Failed"
  /\ Step("exceededRetryAttempts", "fail", 0)
  /\ UNCHANGED <<props, mappings, queue, Messages, Attempt, RetryTime, fetchRetries,
               copies, redelivered, inflight, other, clock>>

\* chain ... .next(deleteMessageSqs); if (props.rejitter) chain.next(rejitter
\* logic); chain.next(enabledMapping)
AfterDelete_rejitter == "enableRejitter"

AfterDelete == IF props.rejitter THEN "enableRejitter" ELSE "enabledMapping"

deleteMessageSqs_proceeds ==
  /\ pc = "deleteMessageSqs"
  /\ \/ /\ queue' = queue \ {Messages[1]}
        /\ inflight' = inflight \ {Messages[1]}
        /\ pc' = AfterDelete
        /\ Step("deleteMessageSqs", "ok", 0)
     \/ /\ UNCHANGED <<queue, inflight>>
        /\ pc' = AfterDelete
        /\ Step("deleteMessageSqs", "error", 0)
  /\ UNCHANGED <<props, mappings, Messages, Attempt, RetryTime, fetchRetries,
               copies, redelivered, other, clock>>

\* deleteSqsTaskAction: CallAwsService sqs:deleteMessage
\* {ReceiptHandle: $.Messages[0].ReceiptHandle}; no Retry, no Catch.
deleteMessageSqs ==
  /\ pc = "deleteMessageSqs"
  /\ \/ /\ queue' = queue \ {Messages[1]}
        /\ inflight' = inflight \ {Messages[1]}
        /\ pc' = AfterDelete
        /\ Step("deleteMessageSqs", "ok", 0)
     \/ /\ UNCHANGED <<queue, inflight>>
        /\ pc' = "Failed"
        /\ Step("deleteMessageSqs", "error", 0)
  /\ UNCHANGED <<props, mappings, Messages, Attempt, RetryTime, fetchRetries,
               copies, redelivered, other, clock>>

\* createRejitterLogic: enableRejitter.next(waitAndDisableJitter)
enableRejitter_primary ==
  toggleEventSourceMapping("enableRejitter", "sqsEventSource", TRUE,
                           "waitAndDisableJitter")

enableRejitter ==
  toggleEventSourceMapping("enableRejitter", "rejitterSqsEventSource", TRUE,
                           "waitAndDisableJitter")

waitAndDisableJitter_sixty ==
  /\ pc = "waitAndDisableJitter"
  /\ pc' = "disableRejitter"
  /\ clock' = IF clock < 60 THEN 60 ELSE clock
  /\ Step("waitAndDisableJitter", "ok", 60)
  /\ UNCHANGED <<props, mappings, queue, Messages, Attempt, RetryTime, fetchRetries,
               copies, redelivered, inflight, other>>

\* new Wait(this, "Wait 60 Seconds", seconds(rejitterInitialBackoffDelay)).next(disableRejitter)
waitAndDisableJitter ==
  /\ pc = "waitAndDisableJitter"
  /\ pc' = "disableRejitter"
  /\ clock' = IF clock < backoffDelay THEN backoffDelay ELSE clock
  /\ Step("waitAndDisableJitter", "ok", backoffDelay)
  /\ UNCHANGED <<props, mappings, queue, Messages, Attempt, RetryTime, fetchRetries,
               copies, redelivered, inflight, other>>

disableRejitter ==
  toggleEventSourceMapping("disableRejitter", "rejitterSqsEventSource", FALSE,
                           "enabledMapping")

Next ==
  \/ disableMapping
  \/ waitState
  \/ getTesterMessage
  \/ triggerLambda
  \/ incrementFailureAndTime
  \/ exceededRetryChoice
  \/ waitAndRetry
  \/ exceededRetryAttempts
  \/ deleteMessageSqs
  \/ enableRejitter
  \/ waitAndDisableJitter
  \/ disableRejitter
  \/ enabledMapping

Spec == Init /\ [][Next]_vars

TypeOK ==
  /\ pc \in {"disableMapping", "waitState", "getTesterMessage", "triggerLambda",
             "incrementFailureAndTime", "exceededRetryChoice", "waitAndRetry",
             "exceededRetryAttempts", "deleteMessageSqs", "enableRejitter",
             "waitAndDisableJitter", "disableRejitter", "enabledMapping",
             "Succeeded", "Failed"}
  /\ mappings \in [EventSources -> BOOLEAN]
  /\ queue \subseteq Units
  /\ Len(Messages) <= 1
  /\ Attempt \in Nat /\ RetryTime \in Nat
  /\ fetchRetries \in 0..FetchRetryMaxAttempts
  /\ clock \in Nat

\* ---- the execution history ----
WaitStates == {"waitState", "waitAndRetry"}

EntriesOf(states) == {j \in 1..Len(log) : log[j][1] \in states}

ProbeEntries == EntriesOf({"triggerLambda"})
NumProbes == Cardinality(ProbeEntries)
NumFailedProbes == Cardinality({j \in ProbeEntries : log[j][2] = "caught"})
NumIncrements == Cardinality(EntriesOf({"incrementFailureAndTime"}))

\* the log entry of the i-th probe of the Incident
ProbeEntry(i) == CHOOSE j \in ProbeEntries :
                   Cardinality({k \in ProbeEntries : k <= j}) = i

\* seconds of the last backoff wait that ran before log entry j
WaitBefore(j) ==
  LET ws == {k \in EntriesOf(WaitStates) : k < j}
      w == CHOOSE k \in ws : \A m \in ws : m <= k
  IN log[w][3]

\* the seconds of the backoff waits of the Incident, in order
BackoffWaits ==
  LET ws == SelectSeq(log, LAMBDA e : e[1] \in WaitStates)
  IN [i \in 1..Len(ws) |-> ws[i][3]]

InSpan == pc \in {"waitState", "getTesterMessage", "triggerLambda",
                  "incrementFailureAndTime", "exceededRetryChoice",
                  "waitAndRetry", "exceededRetryAttempts", "deleteMessageSqs",
                  "enableRejitter", "waitAndDisableJitter", "disableRejitter",
                  "enabledMapping"}

\* C1: from the completion of the gate-disable step to the start of the final
\* gate-enable step (initial wait, fetch, probes, backoff waits, delete,
\* rejitter stage) the primary gate is disabled, and no step other than the
\* final enable step turns the primary gate on.
C1_GateDisabledInSpan ==
  /\ [](InSpan => ~gate)
  /\ [][(~gate /\ gate') => pc = "enabledMapping"]_vars

C1_Witness == pc = "disableRejitter" /\ rejitterGate /\ ~gate /\ NumFailedProbes >= 1

\* C2 (as stated): in every terminal state the primary gate is enabled iff the
\* Incident is Restored.
C2_GateEnabledIffRestored == Terminal => (gate <=> pc = "Succeeded")

DisableFailed == log # <<>> /\ log[1] = <<"disableMapping", "error", 0>>

\* C2 (amended): in every terminal state of an Incident whose gate-disable call
\* succeeded the primary gate is enabled iff the Incident is Restored; an
\* Incident that Failed on the gate-disable call ends with the gate as the
\* call found it, enabled.
C2_GateEnabledIffRestoredOrNeverDisabled ==
  Terminal => IF DisableFailed THEN pc = "Failed" /\ gate
              ELSE (gate <=> pc = "Succeeded")

C2_Witness == pc = "Failed" /\ Last(log) = <<"enabledMapping", "error", 0>> /\ ~gate

\* C3: for every configured initialBackoffDelay and every i in 1..maxAttempts,
\* the wait before the i-th probe lasts initialBackoffDelay * 2^(i-1) seconds.
C3_WaitBeforeProbe ==
  \A i \in 1..RetryAttemptLimit :
    i <= NumProbes => WaitBefore(ProbeEntry(i)) = defaultTimeout * Pow(2, i - 1)

\* C4: the worker is probed at most maxAttempts (10) times in one Incident;
\* once the retry ceiling has sent the Incident to Failed nothing runs after it.
C4_AtMostMaxAttemptsProbes ==
  /\ NumProbes <= RetryAttemptLimit
  /\ \A j \in EntriesOf({"exceededRetryAttempts"}) : j = Len(log) /\ pc = "Failed"

C4_Witness ==
  /\ pc = "Failed"
  /\ Last(log)[1] = "exceededRetryAttempts"
  /\ NumProbes = NumFailedProbes
  /\ NumProbes >= 9

\* C5: after a probe failure has incremented the attempt count, the retry loop
\* goes to Failed exactly when attempt > maxAttempts (10), and otherwise waits
\* and probes again.
C5_FailedIffAttemptExceedsMax ==
  [][pc = "exceededRetryChoice" =>
       /\ (pc' = "exceededRetryAttempts" <=> Attempt > RetryAttemptLimit)
       /\ (Attempt <= RetryAttemptLimit => pc' = "waitAndRetry")]_vars

\* C6: Scenario A: the worker fails every probe, initialBackoffDelay = 10: the
\* waits of the Incident are 10, 20, 40, ..., 5120 (ten waits, each followed by
\* a probe), then the Incident is Failed with the gate still disabled.
C6_ScenarioA ==
  (/\ pc = "Failed"
   /\ Last(log)[1] = "exceededRetryAttempts"
   /\ defaultTimeout = 10)
  => /\ BackoffWaits = [i \in 1..10 |-> 10 * Pow(2, i - 1)]
     /\ NumProbes = 10
     /\ ~gate

\* C7: after a successful probe the next step is the delete of the probe unit
\* and, with rejitter disabled, the step after a successful delete is the gate
\* enable, which ends the Incident Restored; with rejitter disabled the
\* rejitter drain is never activated.
C7_SuccessPathOrder ==
  /\ \A j \in ProbeEntries : log[j][2] = "ok" =>
       /\ j = Len(log) => pc = "deleteMessageSqs"
       /\ j < Len(log) => log[j + 1][1] = "deleteMessageSqs"
       /\ (~props.rejitter /\ j + 1 <= Len(log) /\ log[j + 1][2] = "ok") =>
            /\ j + 1 = Len(log) => pc = "enabledMapping"
            /\ j + 1 < Len(log) => log[j + 2][1] = "enabledMapping"
            /\ (j + 2 <= Len(log) /\ log[j + 2][2] = "ok") =>
                 /\ j + 2 = Len(log)
                 /\ pc = "Succeeded"
                 /\ gate
                 /\ Messages[1] \notin queue
  /\ ~props.rejitter =>
       /\ ~rejitterGate
       /\ EntriesOf({"enableRejitter", "waitAndDisableJitter", "disableRejitter"}) = {}

C7_Witness ==
  /\ pc = "Succeeded"
  /\ ~props.rejitter
  /\ NumFailedProbes = 3
  /\ NumProbes = 4

\* C8: each probe failure changes the record by exactly attempt := attempt + 1
\* and retryInterval := 2 * retryInterval; after the fetch no other step changes
\* either field, so the attempt count never decreases.
C8_FailureStepOnlyChange ==
  /\ [][/\ (pc = "triggerLambda" /\ pc' # "deleteMessageSqs")
             => pc' = "incrementFailureAndTime"
        /\ pc = "incrementFailureAndTime"
             => Attempt' = Attempt + 1 /\ RetryTime' = 2 * RetryTime
        /\ pc \notin {"incrementFailureAndTime", "getTesterMessage"}
             => Attempt' = Attempt /\ RetryTime' = RetryTime
        /\ Messages # <<>> => Attempt' >= Attempt /\ RetryTime' >= RetryTime]_vars
  /\ [](Messages # <<>> =>
          /\ Attempt = InitialAttempt + NumIncrements
          /\ RetryTime = InitialRetryTime * Pow(2, NumIncrements))

C8_Witness == pc = "triggerLambda" /\ Attempt = 4 /\ RetryTime = 80 /\ NumFailedProbes = 3

\* C9: Scenario D: when the gate-disable call fails the Incident is Failed at
\* once: the failed call is the only step of the Incident (no wait, no fetch,
\* no probe, no second disable call).
C9_DisableFailureIsFatal == DisableFailed => (pc = "Failed" /\ Len(log) = 1)

C9_Witness == DisableFailed /\ pc = "Failed" /\ NumProbes = 0

\* C10: when the delete of the probe unit fails the Incident is Failed: the
\* failed delete is the last step (no second delete, no probe, no rejitter
\* step, no enable step after it), the drain is off and the gate is disabled.
C10_DeleteFailureIsFatal ==
  \A j \in EntriesOf({"deleteMessageSqs"}) : log[j][2] = "error" =>
    /\ j = Len(log)
    /\ pc = "Failed"
    /\ Cardinality(EntriesOf({"deleteMessageSqs"})) = 1
    /\ ~gate
    /\ ~rejitterGate

C10_Witness ==
  /\ pc = "Failed"
  /\ Last(log) = <<"deleteMessageSqs", "error", 0>>
  /\ props.rejitter
  /\ NumFailedProbes >= 1

\* Each external call returns and each wait elapses: a state of the machine
\* that can run does run.
FairSpec == Spec /\ WF_vars(Next)

FetchEntries(outcome) ==
  {j \in EntriesOf({"getTesterMessage"}) : log[j][2] = outcome}

\* C11: when the fetch succeeds the record is attempt = 1 and retryInterval =
\* the configured initial interval, whatever number of transport retries came
\* before the success.
C11_FetchInitialisesRecord ==
  (log # <<>> /\ Last(log) = <<"getTesterMessage", "ok", 0>>)
    => (Attempt = 1 /\ RetryTime = defaultTimeout)

\* C12: a failing fetch is retried inside its own envelope and does not end
\* the Incident while a retry remains; when the envelope (5 retries) is used
\* up the Incident is Failed with no probe performed and the gate disabled.
C12_FetchRetryEnvelope ==
  /\ Cardinality(FetchEntries("retry")) = fetchRetries
  /\ fetchRetries <= FetchRetryMaxAttempts
  /\ \A j \in FetchEntries("retry") :
       /\ log[j][3] = FetchRetryInterval * Pow(FetchRetryBackoffRate, j - 3)
       /\ j = Len(log) => pc = "getTesterMessage"
       /\ j < Len(log) => log[j + 1][1] = "getTesterMessage"
  /\ \A j \in FetchEntries("error") :
       /\ Cardinality(FetchEntries("retry")) = FetchRetryMaxAttempts
       /\ j = Len(log)
       /\ pc = "Failed"
       /\ NumProbes = 0
       /\ ~gate

C12_Witness ==
  /\ pc = "Failed"
  /\ Last(log) = <<"getTesterMessage", "error", 0>>
  /\ fetchRetries = FetchRetryMaxAttempts

\* C16: every Incident reaches Restored or Failed, and a terminal Incident
\* takes no further step.
C16_Terminates ==
  /\ <>Terminal
  /\ [][~Terminal]_vars

C16_Witness == pc = "Succeeded" /\ NumFailedProbes = 8 /\ fetchRetries = FetchRetryMaxAttempts

\* C18: an Incident has one probe unit: the fetch yields at most one unit, the
\* worker is invoked only with a fetched unit, no step after the fetch changes
\* the unit reference, the only unit ever deleted is that unit and only right
\* after a successful probe, and a retry-exhausted Incident deletes nothing.
C18_OneProbeUnit ==
  /\ [](/\ Len(Messages) <= 1
        /\ NumProbes > 0 => Len(Messages) = 1
        /\ EntriesOf({"exceededRetryAttempts"}) # {}
             => EntriesOf({"deleteMessageSqs"}) = {})
  /\ [][/\ Messages # <<>> => Messages' = Messages
        /\ pc = "triggerLambda" => Messages # <<>>
        /\ queue' # queue =>
             /\ pc = "deleteMessageSqs"
             /\ Last(log) = <<"triggerLambda", "ok", 0>>
             /\ Messages[1] \in queue
             /\ queue' = queue \ {Messages[1]}]_vars

C18_Witness ==
  /\ pc = "enabledMapping"
  /\ NumFailedProbes = 2
  /\ Messages # <<>>
  /\ Messages[1] \notin queue
  /\ queue # {}

\* C20: in every terminal state of an Incident the rejitter drain is inactive.
C20_DrainOffAtTerminal == Terminal => ~rejitterGate

\* ---- the rejitter lambda (rejitter-sqs-lambda.ts) and redelivery ----

\* Number(INITIAL_DELAY) + Math.floor(Math.random() * (Number(JITTER_DELAY) - 1))
\* with Math.random() = k / RandomGrid
JitterDelay(initialDelay, jitterDelay, k) ==
  initialDelay + ((k * (jitterDelay - 1)) \div RandomGrid)

\* every delay the handler can compute for one record
JitterDelays(initialDelay, jitterDelay) ==
  {JitterDelay(initialDelay, jitterDelay, k) : k \in 0..(RandomGrid - 1)}

\* The handler is invoked by rejitterSqsEventSource with a batch of the queue.
\* messages.map(...) starts one sendMessage per record with the record's body
\* and a delay; Promise.all resolves when all succeed and rejects when one
\* fails, the other sends having been issued all the same.  The event source
\* deletes the batch when the handler resolves and returns the whole batch to
\* the queue when it rejects.
\* A message sent with DelaySeconds is in the queue at once and is handed to a
\* consumer once its delay has run out.  An event holds units of the backlog
\* and at most one such message.
AvailableCopies == {c \in BagToSet(copies) : c[3] + c[2] <= clock}

rejitterHandler ==
  /\ rejitterGate
  /\ \E batch \in SUBSET (queue \ inflight),
        again \in {{}} \cup {{c} : c \in AvailableCopies} :
       /\ (batch # {} \/ again # {})
       /\ Cardinality(batch) + Cardinality(again) <= MaxBatch
       /\ \E delay \in [batch -> JitterDelays(backoffDelay, rejitterRange)],
             failed \in SUBSET batch,
             delayAgain \in [again -> JitterDelays(backoffDelay, rejitterRange)],
             failedAgain \in SUBSET again :
            LET sent == {<<b, delay[b], clock>> : b \in batch \ failed}
                sentAgain == {<<c[1], delayAgain[c], clock>> : c \in again \ failedAgain}
                resolved == failed = {} /\ failedAgain = {}
                kept == IF resolved THEN copies (-) SetToBag(again) ELSE copies
            IN /\ BagCardinality(kept) + Cardinality(sent) + Cardinality(sentAgain)
                    <= MaxCopies
               /\ copies' = kept (+) SetToBag(sent) (+) SetToBag(sentAgain)
               /\ queue' = IF resolved THEN queue \ batch ELSE queue
  /\ UNCHANGED <<props, pc, mappings, Messages, Attempt, RetryTime, fetchRetries,
                 log, redelivered, inflight, other, clock>>

ToggleOf(state) ==
  CASE state = "disableMapping" -> <<"sqsEventSource", FALSE>>
    [] state = "enabledMapping" -> <<"sqsEventSource", TRUE>>
    [] state = "enableRejitter" -> <<"rejitterSqsEventSource", TRUE>>
    [] state = "disableRejitter" -> <<"rejitterSqsEventSource", FALSE>>

\* A crash-and-resume issues the side effect of the last completed step a
\* second time: the updateEventSourceMapping call, the deleteMessage call, or
\* (a record delivered twice to the rejitter lambda) a sendMessage call.
redeliver ==
  /\ redelivered < MaxRedeliveries
  /\ redelivered' = redelivered + 1
  /\ \/ /\ log # <<>>
        /\ Last(log)[2] = "ok"
        /\ Last(log)[1] \in {"disableMapping", "enabledMapping", "enableRejitter",
                             "disableRejitter"}
        /\ mappings' = [mappings EXCEPT ![ToggleOf(Last(log)[1])[1]] =
                                           ToggleOf(Last(log)[1])[2]]
        /\ UNCHANGED <<queue, copies>>
     \/ /\ log # <<>>
        /\ Last(log) = <<"deleteMessageSqs", "ok", 0>>
        /\ queue' = queue \ {Messages[1]}
        /\ UNCHANGED <<mappings, copies>>
     \/ /\ rejitterGate
        /\ BagCardinality(copies) < MaxCopies + MaxRedeliveries
        /\ \E c \in BagToSet(copies) :
             copies' = copies (+) SetToBag({<<c[1], c[2], clock>>})
        /\ UNCHANGED <<mappings, queue>>
  /\ UNCHANGED <<props, pc, Messages, Attempt, RetryTime, fetchRetries, log,
                 inflight, other, clock>>

\* The construct built with rejitter: true and the rejitter props passed.
InitDrain ==
  /\ props \in [initialBackoffDelay : {Undefined},
                rejitter : {TRUE},
                rejitterInitialBackoffDelay : 1..MaxSettleDelay,
                rejitterDelay : 1..MaxJitterWindow]
  /\ pc = "disableMapping"
  /\ mappings = [e \in EventSources |-> e = "sqsEventSource"]
     \* the backlog that built up before the trigger
  /\ queue = Units
  /\ Messages = <<>>
  /\ Attempt = 0
  /\ RetryTime = 0
  /\ fetchRetries = 0
  /\ log = <<>>
  /\ copies = EmptyBag
  /\ redelivered = 0
  /\ inflight = {}
  /\ other = <<>>
  /\ clock = 0

\* The Incidents of Scenario C, in which the first probe succeeds, together
\* with the rejitter lambda and redelivery.
NextDrain ==
  \/ disableMapping
  \/ waitState
  \/ getTesterMessage
  \/ triggerLambda
  \/ deleteMessageSqs
  \/ enableRejitter
  \/ waitAndDisableJitter
  \/ disableRejitter
  \/ enabledMapping
  \/ rejitterHandler
  \/ redeliver

SpecDrain == InitDrain /\ [][NextDrain]_vars

\* C13: every re-enqueue delay is an integer of [initialSettleDelay,
\* initialSettleDelay + jitterWindow - 1] and every integer of that interval is
\* a possible delay; for 60/120 the possible delays are exactly 60..179.
C13_DelayRange ==
  copies # EmptyBag =>
    /\ \A c \in BagToSet(copies) : c[2] \in backoffDelay..(backoffDelay + rejitterRange - 1)
    /\ JitterDelays(backoffDelay, rejitterRange) =
         backoffDelay..(backoffDelay + rejitterRange - 1)
    /\ JitterDelays(DefaultRejitterInitialBackoffDelay, DefaultRejitterDelay) = 60..179

\* how many messages with body b the queue holds: the original and the copies
BodyCount(b) ==
  LET cs == {c \in BagToSet(copies) : c[1] = b}
  IN (IF b \in queue THEN 1 ELSE 0) + BagCardinality([c \in cs |-> copies[c]])

HandlerStep ==
  /\ pc' = pc
  /\ log' = log
  /\ redelivered' = redelivered
  /\ (copies' # copies \/ queue' # queue)

\* C14: a drain batch replaces each drained unit by exactly one delayed copy
\* with the same body, also when one re-enqueue call of the batch fails: no
\* body is in the queue more often than before the batch and none is lost.
C14_RejitterConserves ==
  [][HandlerStep => \A b \in Units : BodyCount(b)' = BodyCount(b)]_vars

NextEntryIs(j, state) ==
  /\ j = Len(log) => pc = state
  /\ j < Len(log) => log[j + 1][1] = state

OkAt(j) == j <= Len(log) /\ log[j][2] = "ok"

\* C15: with rejitter enabled the steps after the delete of the probe unit
\* are, in order, activate the drain, wait initialSettleDelay, deactivate the
\* drain, enable the primary gate; the drain and the primary gate are never
\* both enabled.
C15_RejitterOrder ==
  /\ ~(gate /\ rejitterGate)
  /\ props.rejitter =>
       \A j \in EntriesOf({"deleteMessageSqs"}) : log[j][2] = "ok" =>
         /\ NextEntryIs(j, "enableRejitter")
         /\ OkAt(j + 1) => NextEntryIs(j + 1, "waitAndDisableJitter")
         /\ j + 2 <= Len(log) =>
              /\ log[j + 2][3] = backoffDelay
              /\ NextEntryIs(j + 2, "disableRejitter")
         /\ (OkAt(j + 1) /\ ~OkAt(j + 3)) => rejitterGate
         /\ OkAt(j + 3) => (NextEntryIs(j + 3, "enabledMapping") /\ ~rejitterGate)
         /\ OkAt(j + 4) => (j + 4 = Len(log) /\ pc = "Succeeded" /\ gate)

C15_Witness ==
  /\ pc = "Succeeded"
  /\ props.rejitter
  /\ props.rejitterInitialBackoffDelay = 1
  /\ queue # {}
  /\ gate

\* C17: issuing a side-effecting step a second time (gate disable/enable,
\* delete of the probe unit, re-enqueue of a unit) leaves the gate and the
\* queue as issuing it once did.
C17_RedeliveryIdempotent ==
  [][redelivered' # redelivered =>
       (mappings' = mappings /\ queue' = queue /\ copies' = copies)]_vars

\* ---- a second trigger while an Incident is active ----

RECURSIVE BackoffSeconds(_)
\* seconds of the "Exponential Backoff" waits in a history
BackoffSeconds(history) ==
  IF history = <<>> THEN 0
  ELSE (IF history[1][1] = "waitAndRetry" THEN history[1][3] ELSE 0)
       + BackoffSeconds(Tail(history))

\* createEventBridgeAlarmTrigger: every ALARM state change starts an execution
\* of the state machine; nothing looks for a running execution.  The running
\* execution is in its backoff wait, where it stays suspended, and the new
\* execution starts at the first state of the chain.
secondTrigger ==
  /\ other = <<>>
  /\ clock = 0
  /\ pc = "waitAndRetry"
  /\ other' = <<[pc |-> pc, Messages |-> Messages, Attempt |-> Attempt,
                 RetryTime |-> RetryTime, log |-> log]>>
  /\ pc' = "disableMapping"
  /\ Messages' = <<>>
  /\ Attempt' = 0
  /\ RetryTime' = 0
  /\ fetchRetries' = 0
  /\ log' = <<>>
  /\ UNCHANGED <<props, mappings, queue, copies, redelivered, inflight, clock>>

\* receiveMessage hides the unit for the queue's visibility timeout only; the
\* suspended execution has held its unit for its completed backoff waits and
\* holds it through the wait it is in.  Once that exceeds the timeout the unit
\* is visible to receivers again.
visibilityTimeout ==
  /\ other # <<>>
  /\ other[1].Messages # <<>>
  /\ other[1].Messages[1] \in inflight
  /\ BackoffSeconds(other[1].log) + other[1].RetryTime > VisibilityTimeout
  /\ inflight' = inflight \ {other[1].Messages[1]}
  /\ UNCHANGED <<props, pc, mappings, queue, Messages, Attempt, RetryTime,
                 fetchRetries, log, copies, redelivered, other, clock>>

\* The construct with its default props and a backlog in the queue.
InitTwo ==
  /\ props = [initialBackoffDelay |-> Undefined,
              rejitter |-> FALSE,
              rejitterInitialBackoffDelay |-> Undefined,
              rejitterDelay |-> Undefined]
  /\ pc = "disableMapping"
  /\ mappings = [e \in EventSources |-> e = "sqsEventSource"]
  /\ queue = Units
  /\ Messages = <<>>
  /\ Attempt = 0
  /\ RetryTime = 0
  /\ fetchRetries = 0
  /\ log = <<>>
  /\ copies = EmptyBag
  /\ redelivered = 0
  /\ inflight = {}
  /\ other = <<>>
  /\ clock = 0

NextTwo ==
  \/ disableMapping
  \/ waitState
  \/ getTesterMessage
  \/ triggerLambda
  \/ incrementFailureAndTime
  \/ exceededRetryChoice
  \/ waitAndRetry
  \/ exceededRetryAttempts
  \/ deleteMessageSqs
  \/ enabledMapping
  \/ secondTrigger
  \/ visibilityTimeout

SpecTwo == InitTwo /\ [][NextTwo]_vars

\* C19: two Incidents that are active at the same time never have the same
\* unit as their probe unit, also when a backoff wait outlasts the hold the
\* fetch put on the unit.
C19_ExclusiveProbeUnit ==
  (other # <<>> /\ ~Terminal /\ Messages # <<>>) => other[1].Messages # Messages

\* ---- the drain in time ----
\* A second passes while the drain is activated.  The Wait state lasts
\* rejitterInitialBackoffDelay seconds, so within it the clock stops at that
\* value; the updateEventSourceMapping call that follows takes its own time.
tick ==
  /\ rejitterGate
  /\ clock < MaxClock
  /\ pc = "waitAndDisableJitter" => clock < backoffDelay
  /\ clock' = clock + 1
  /\ UNCHANGED <<props, pc, mappings, queue, Messages, Attempt, RetryTime, fetchRetries,
                 log, copies, redelivered, inflight, other>>

\* The Incidents of Scenario C with the rejitter lambda, second by second.
NextJitter ==
  \/ disableMapping
  \/ waitState
  \/ getTesterMessage
  \/ triggerLambda
  \/ deleteMessageSqs
  \/ enableRejitter
  \/ waitAndDisableJitter
  \/ disableRejitter
  \/ enabledMapping
  \/ rejitterHandler
  \/ tick

SpecJitter == InitDrain /\ [][NextJitter]_vars

\* a sendMessage call of the rejitter lambda for body b happens in this step
Rejitters(b) ==
  \E x \in BagToSet(copies') :
    /\ x[1] = b
    /\ CopiesIn(x, copies') > CopiesIn(x, copies)

\* C21: a unit the rejitter lambda re-enqueues at second t of the drain is
\* not available before the drain's deactivation time (t + delay >=
\* rejitterInitialBackoffDelay), and within one Incident no unit is
\* re-enqueued by the rejitter lambda a second time; when the Incident has
\* succeeded the re-enqueued units are left to the primary consumer alone.
C21_RejitteredOnce ==
  /\ [](\A c \in BagToSet(copies) : c[3] + c[2] >= backoffDelay)
  /\ [][\A b \in Units :
           Rejitters(b) => \A y \in BagToSet(copies) : y[1] # b]_vars
  /\ [](pc = "Succeeded" => gate /\ ~rejitterGate)

====
